---- MODULE Spec2Model ----
(***************************************************************************)
(* Nidhogg process utilities (src/Nidhogg/ProcessUtils.hpp): the protected *)
(* process registry, the object-open access filter, the process hider and  *)
(* the privilege elevator, as state machines.                              *)
(***************************************************************************)
EXTENDS Integers, Sequences, FiniteSets, TLC

\* ------------------------------------------------------------------------
\* Bounds of the model
\* ------------------------------------------------------------------------

\* Capacity of pGlobals.Processes.Pids (MAX_PIDS, scaled down).
MAX_PIDS == 2

\* A process identifier drawn as argument, besides 0 and ScenarioPid.
OtherPid == 1

\* Threads that call into the registry and the filter concurrently.
NumThreads == 2

\* Process objects (EPROCESS) of the synthetic active-process list.
NumNodes == 3

\* Bytes of a page of the target's memory (PAGE_SIZE, scaled down).
PageSize == 8

\* Cap of the count of reads of one object's pid by one walk; a walk that
\* never ends reads on without counting further.
MaxVisits == 2

\* ------------------------------------------------------------------------
\* Program constants
\* ------------------------------------------------------------------------

SYSTEM_PROCESS_PID == 4
PROCESS_TERMINATE == 1
PROCESS_CREATE_THREAD == 2
PROCESS_VM_READ == 16
PROCESS_VM_OPERATION == 8
PROCESS_DUP_HANDLE == 64
PROCESS_VM_WRITE == 2 * PROCESS_VM_READ
PROCESS_ALL_ACCESS == 2097151

\* NTSTATUS values, as the signed 32-bit numbers they are.
STATUS_SUCCESS == 0
STATUS_UNSUCCESSFUL == -1073741823

\* sizeof(INT_PTR) of the 64-bit driver.
SizeofIntPtr == 8

\* ModuleUtils.hpp: the bound of the wait for the loader data, the length of
\* the patch.
LdrAttempts == 10
PatchLen == 6

\* The pid of end-to-end scenario A.
ScenarioPid == 1234

Pid == {0, OtherPid, ScenarioPid}
NonZeroPid == Pid \ {0}
Slot == 0..(MAX_PIDS - 1)

\* The access bits the requests are built from: the five the filter clears and
\* two it does not (PROCESS_VM_WRITE and bit 4).
AccessBit == {PROCESS_TERMINATE, PROCESS_CREATE_THREAD, 4, PROCESS_VM_OPERATION,
              PROCESS_VM_READ, PROCESS_VM_WRITE, PROCESS_DUP_HANDLE}

\* Requested access masks: nothing, full access, each bit alone, and the five
\* cleared bits together.
RequestMask ==
    {0, PROCESS_ALL_ACCESS,
     PROCESS_TERMINATE + PROCESS_CREATE_THREAD + PROCESS_VM_OPERATION
        + PROCESS_VM_READ + PROCESS_DUP_HANDLE}
        \cup AccessBit

VARIABLES
    Pids,        \* pGlobals.Processes.Pids: Slot -> pid, 0 an empty slot
    PidsCount,   \* pGlobals.Processes.PidsCount
    last,        \* the call that completed last, with its arguments and result
    calls,       \* history: number of calls completed, counted up to 2
    tracked,     \* history of each pid, see below
    zeroUsed     \* history: pid 0 was passed to AddProcess or RemoveProcess

regVars == <<Pids, PidsCount, last, calls, tracked, zeroUsed>>

VARIABLES
    Lock,        \* pGlobals.Lock: the thread that holds it, 0 when free
    thr          \* thread -> its call in progress and its position in it

lockVars == <<Lock, thr>>

Thread == 1..NumThreads

VARIABLES
    build,       \* dwBuildNumber of the running system
    pidBase,     \* UniqueProcessId of the first process object
    Flink,       \* ActiveProcessLinks.Flink of each process object
    Blink,       \* ActiveProcessLinks.Blink of each process object
    Token,       \* the 8-byte token field of each process object
    hide,        \* thread -> its HideProcess call and its position in it
    elev         \* the ElevateProcess call that completed last

kVars == <<build, pidBase, Flink, Blink, Token, hide, elev>>

VARIABLES
    overlap      \* a HideProcess call has run while another one was in progress

VARIABLES
    patch,       \* PatchModule: position, locals and the kernel calls made
    Memory,      \* the bytes of the target's module image
    Protection   \* the protection of each page of the image

mVars == <<patch, Memory, Protection>>

Node == 1..NumNodes
Hider == 1..2

\* tracked[pid]:
\*   "never"    pid was never passed to AddProcess
\*   "failed"   AddProcess(pid) was called and never returned true
\*   "live"     AddProcess(pid) returned true, no RemoveProcess(pid) since
\*   "removed"  RemoveProcess(pid) returned true, no AddProcess(pid) since
\*   "missed"   RemoveProcess(pid) returned false while pid was "live"

\* last.afterAdd (of an open): the open directly followed a successful
\* AddProcess(pid) that was the first call, on the empty registry.
NoCall == [op |-> "none", pid |-> 0, ret |-> FALSE, kernel |-> FALSE,
           req |-> 0, access |-> 0, afterAdd |-> FALSE]

Counted == IF calls < 2 THEN calls + 1 ELSE calls

\* ------------------------------------------------------------------------
\* Registry: FindProcess, AddProcess, RemoveProcess
\* ------------------------------------------------------------------------

\* The slots a scan "for (i = 0; i < PidsCount; i++)" reads inside the array.
ScannedSlots == {i \in Slot : i < PidsCount}

\* The scan runs past the end of Pids (an out-of-bounds read).
ScanOverruns == PidsCount > MAX_PIDS

\* FindProcess(pid): the values the call can return.  A hit inside the array
\* returns true; a scan that runs past the array reads memory the model does
\* not hold, and may or may not match there.
FindProcess(pid) ==
    IF \E i \in ScannedSlots : Pids[i] = pid THEN {TRUE}
    ELSE IF ScanOverruns THEN BOOLEAN
    ELSE {FALSE}

\* First slot holding v among the slots S (S non-empty of such slots).
FirstSlot(S, v) == CHOOSE i \in S : Pids[i] = v /\ \A j \in S : Pids[j] = v => i <= j

Track(pid, how) == [tracked EXCEPT ![pid] = how]

\* PidsCount is followed one step beyond the capacity of the array.
MaxPidsCount == MAX_PIDS + 1

\* The loop goes on after the store: every empty slot takes the pid.
AddProcess_NoReturn(pid) ==
    /\ IF \E i \in Slot : Pids[i] = 0
       THEN /\ PidsCount < MaxPidsCount
            /\ Pids' = [i \in Slot |-> IF Pids[i] = 0 THEN pid ELSE Pids[i]]
            /\ PidsCount' = PidsCount + 1
            /\ last' = [NoCall EXCEPT !.op = "AddProcess", !.pid = pid, !.ret = TRUE]
            /\ tracked' = Track(pid, "live")
       ELSE /\ UNCHANGED <<Pids, PidsCount>>
            /\ last' = [NoCall EXCEPT !.op = "AddProcess", !.pid = pid, !.ret = FALSE]
            /\ tracked' = IF tracked[pid] = "never" THEN Track(pid, "failed") ELSE tracked
    /\ calls' = Counted
    /\ zeroUsed' = (zeroUsed \/ pid = 0)

\* AddProcess(pid): first slot equal to 0 over all MAX_PIDS slots.
AddProcess(pid) ==
    /\ IF \E i \in Slot : Pids[i] = 0
       THEN /\ PidsCount < MaxPidsCount
            /\ Pids' = [Pids EXCEPT ![FirstSlot(Slot, 0)] = pid]
            /\ PidsCount' = PidsCount + 1
            /\ last' = [NoCall EXCEPT !.op = "AddProcess", !.pid = pid, !.ret = TRUE]
            /\ tracked' = Track(pid, "live")
       ELSE /\ UNCHANGED <<Pids, PidsCount>>
            /\ last' = [NoCall EXCEPT !.op = "AddProcess", !.pid = pid, !.ret = FALSE]
            /\ tracked' = IF tracked[pid] = "never" THEN Track(pid, "failed") ELSE tracked
    /\ calls' = Counted
    /\ zeroUsed' = (zeroUsed \/ pid = 0)

\* RemoveProcess(pid): first match among the first PidsCount slots.
RemoveProcess(pid) ==
    /\ \/ /\ \E i \in ScannedSlots : Pids[i] = pid
          /\ Pids' = [Pids EXCEPT ![FirstSlot(ScannedSlots, pid)] = 0]
          /\ PidsCount' = PidsCount - 1
          /\ last' = [NoCall EXCEPT !.op = "RemoveProcess", !.pid = pid, !.ret = TRUE]
       \/ /\ ~ \E i \in ScannedSlots : Pids[i] = pid
          /\ ScanOverruns
          \* the overrun matched: a zero is stored past the array
          /\ Pids' = Pids
          /\ PidsCount' = PidsCount - 1
          /\ last' = [NoCall EXCEPT !.op = "RemoveProcess", !.pid = pid, !.ret = TRUE]
       \/ /\ ~ \E i \in ScannedSlots : Pids[i] = pid
          /\ UNCHANGED <<Pids, PidsCount>>
          /\ last' = [NoCall EXCEPT !.op = "RemoveProcess", !.pid = pid, !.ret = FALSE]
    /\ calls' = Counted
    /\ tracked' = IF tracked[pid] = "live"
                  THEN Track(pid, IF last'.ret THEN "removed" ELSE "missed")
                  ELSE tracked
    /\ zeroUsed' = (zeroUsed \/ pid = 0)

\* ------------------------------------------------------------------------
\* Access filter: OnPreOpenProcess
\* ------------------------------------------------------------------------

\* mask & bit != 0, bit a power of two.
HasBit(mask, bit) == (mask \div bit) % 2 = 1

\* mask &= ~bit, bit a power of two.
ClearBit(mask, bit) == IF HasBit(mask, bit) THEN mask - bit ELSE mask

\* The filter with the duplicate-handle right left in place.
StripAccess_KeepsDup(mask) ==
    ClearBit(ClearBit(ClearBit(ClearBit(mask,
        PROCESS_VM_OPERATION), PROCESS_VM_READ), PROCESS_CREATE_THREAD),
        PROCESS_TERMINATE)

\* The five "DesiredAccess &= ~..." statements, in the order of the code.
StripAccess(mask) ==
    ClearBit(ClearBit(ClearBit(ClearBit(ClearBit(mask,
        PROCESS_VM_OPERATION), PROCESS_VM_READ), PROCESS_CREATE_THREAD),
        PROCESS_DUP_HANDLE), PROCESS_TERMINATE)

\* OnPreOpenProcess for a handle-open of process `pid` asking for `req`.
OnPreOpenProcess(pid, kernel, req) ==
    /\ \E found \in (IF kernel THEN {FALSE} ELSE FindProcess(pid)) :
          last' = [op |-> "OnPreOpenProcess", pid |-> pid, ret |-> found,
                   kernel |-> kernel, req |-> req,
                   access |-> IF found THEN StripAccess(req) ELSE req,
                   afterAdd |-> /\ calls = 1
                                /\ last.op = "AddProcess"
                                /\ last.pid = pid
                                /\ last.ret]
    /\ calls' = Counted
    /\ UNCHANGED <<Pids, PidsCount, tracked, zeroUsed>>

\* ------------------------------------------------------------------------
\* Offset resolver: GetActiveProcessLinksOffset, GetTokenOffset
\* ------------------------------------------------------------------------

\* The builds drawn: they reach every branch of the two tables.
BuildNumber == {15063, 18362, 19041}

\* NT_SUCCESS(status).
NT_SUCCESS(status) == status >= 0

\* GetActiveProcessLinksOffset, `result` the status of RtlGetVersion.  The
\* ULONG returned on failure holds the 32 bits of STATUS_UNSUCCESSFUL.
GetActiveProcessLinksOffset(result, dwBuildNumber) ==
    IF ~NT_SUCCESS(result) THEN STATUS_UNSUCCESSFUL
    ELSE IF dwBuildNumber \in {10240, 10586, 14393, 18362, 18363} THEN 752
    ELSE IF dwBuildNumber \in {15063, 16299, 17134, 17763} THEN 744
    ELSE 1096

\* GetTokenOffset.  The UINT64 returned on failure is STATUS_UNSUCCESSFUL
\* sign-extended: as an offset it points 0x3FFFFFFF bytes before the object.
GetTokenOffset(result, dwBuildNumber) ==
    IF ~NT_SUCCESS(result) THEN STATUS_UNSUCCESSFUL
    ELSE IF dwBuildNumber \in {18362, 18363} THEN 864
    ELSE IF dwBuildNumber \in {10240, 10586, 14393, 15063, 16299, 17134, 17763} THEN 856
    ELSE 1208

\* What RtlGetVersion can return.
VersionResult == {STATUS_SUCCESS, STATUS_UNSUCCESSFUL}

\* ------------------------------------------------------------------------
\* Process objects
\* ------------------------------------------------------------------------

\* UniqueProcessId of a process object: pids are multiples of 4.
UniqueProcessId(n) == pidBase + 4 * (n - 1)

\* The pids passed to HideProcess and ElevateProcess: those of the objects a
\* system can hold, so that one at least belongs to no object.
KernelPid == {4 * k : k \in 1..(NumNodes + 1)}

\* PsLookupProcessByProcessId: the objects with that pid (one or none).
PsLookupProcessByProcessId(pid) == {n \in Node : UniqueProcessId(n) = pid}

\* The statuses a failed lookup returns (STATUS_INVALID_PARAMETER,
\* STATUS_INVALID_CID).
LookupFailure == {-1073741811, -1073741813}

\* ------------------------------------------------------------------------
\* Process hider: HideProcess, RemoveProcessLinks
\* ------------------------------------------------------------------------

\* hide[t] and elev record the call made last, whichever it was: a call of
\* one resets the record of the other.
ElevIdle ==
    [pc |-> "idle", pid |-> 0, result |-> STATUS_SUCCESS, status |-> STATUS_SUCCESS,
     tokenOffset |-> 0, touched |-> {}, taken |-> <<>>, dropped |-> <<>>]

HideIdle ==
    [pc |-> "idle", pid |-> 0, result |-> STATUS_SUCCESS, status |-> STATUS_SUCCESS,
     pidOffset |-> 0, listOffset |-> 0, current |-> 0, start |-> 0, cur |-> 0,
     previous |-> 0, next |-> 0, target |-> 0,
     visits |-> [n \in Node |-> 0], touched |-> {},
     Flink0 |-> [n \in Node |-> n], Blink0 |-> [n \in Node |-> n]]

\* No HideProcess call is in progress.
NoHideRunning == \A t \in Hider : hide[t].pc \in {"idle", "done"}

\* The system has not bug-checked.
Running == elev.pc # "bugcheck"

\* HideProcess up to the test of the offset (lines 189-199), called by the
\* process `current`: the offset is resolved; on failure the call returns,
\* otherwise the current process is located.
HideCall(t, pid, result, current) ==
    /\ Running
    /\ hide[t].pc \in {"idle", "done"}
    /\ LET off == GetActiveProcessLinksOffset(result, build) IN
       hide' = [hide EXCEPT ![t] =
          IF off = STATUS_UNSUCCESSFUL
          THEN [HideIdle EXCEPT !.pc = "done", !.pid = pid, !.result = result,
                                !.status = STATUS_UNSUCCESSFUL,
                                !.current = current,
                                !.Flink0 = Flink, !.Blink0 = Blink]
          ELSE [HideIdle EXCEPT !.pc = "first", !.pid = pid, !.result = result,
                                !.pidOffset = off,
                                !.listOffset = off + SizeofIntPtr,
                                !.current = current,
                                !.start = current, !.cur = current,
                                !.Flink0 = Flink, !.Blink0 = Blink]]
    /\ elev' = ElevIdle
    /\ UNCHANGED <<build, pidBase, Flink, Blink, Token>>

\* The read of the pid of the object the walk stands on.
ReadPid(h) ==
    [h EXCEPT !.visits[h.cur] = IF @ < MaxVisits THEN @ + 1 ELSE @,
              !.touched = @ \cup {h.pidOffset}]

\* The read of currentList->Flink that moves the walk on.
Advance(h) ==
    [h EXCEPT !.cur = Flink[h.cur], !.touched = @ \cup {h.listOffset}]

\* Lines 201-210: the current process itself is tested, then the walk starts
\* at its successor.
HideFirst(t) ==
    /\ hide[t].pc = "first"
    /\ hide' = [hide EXCEPT ![t] =
          IF UniqueProcessId(hide[t].cur) = hide[t].pid
          THEN [ReadPid(hide[t]) EXCEPT !.pc = "previous", !.target = hide[t].cur]
          ELSE [Advance(ReadPid(hide[t])) EXCEPT !.pc = "walk"]]
    /\ UNCHANGED <<build, pidBase, Flink, Blink, Token, elev>>

\* The walk reports "no match" with another status.
HideWalk_NotFoundFails(t) ==
    /\ hide[t].pc = "walk"
    /\ hide' = [hide EXCEPT ![t] =
          IF hide[t].cur = hide[t].start
          THEN [hide[t] EXCEPT !.pc = "done", !.status = STATUS_UNSUCCESSFUL]
          ELSE IF UniqueProcessId(hide[t].cur) = hide[t].pid
          THEN [ReadPid(hide[t]) EXCEPT !.pc = "previous", !.target = hide[t].cur]
          ELSE Advance(ReadPid(hide[t]))]
    /\ UNCHANGED <<build, pidBase, Flink, Blink, Token, elev>>

\* Lines 212-224: one turn of the loop, or its end at the starting process.
HideWalk(t) ==
    /\ hide[t].pc = "walk"
    /\ hide' = [hide EXCEPT ![t] =
          IF hide[t].cur = hide[t].start
          THEN [hide[t] EXCEPT !.pc = "done", !.status = STATUS_SUCCESS]
          ELSE IF UniqueProcessId(hide[t].cur) = hide[t].pid
          THEN [ReadPid(hide[t]) EXCEPT !.pc = "previous", !.target = hide[t].cur]
          ELSE Advance(ReadPid(hide[t]))]
    /\ UNCHANGED <<build, pidBase, Flink, Blink, Token, elev>>

\* RemoveProcessLinks, line 166: previous = current->Blink.
ReadPrevious(t) ==
    /\ hide[t].pc = "previous"
    /\ hide' = [hide EXCEPT ![t].previous = Blink[hide[t].cur],
                            ![t].touched = @ \cup {hide[t].listOffset + SizeofIntPtr},
                            ![t].pc = "next"]
    /\ UNCHANGED <<build, pidBase, Flink, Blink, Token, elev>>

\* Line 167: next = current->Flink.
ReadNext(t) ==
    /\ hide[t].pc = "next"
    /\ hide' = [hide EXCEPT ![t].next = Flink[hide[t].cur],
                            ![t].touched = @ \cup {hide[t].listOffset},
                            ![t].pc = "linkFlink"]
    /\ UNCHANGED <<build, pidBase, Flink, Blink, Token, elev>>

\* Line 169: previous->Flink = next.
LinkFlink(t) ==
    /\ hide[t].pc = "linkFlink"
    /\ Flink' = [Flink EXCEPT ![hide[t].previous] = hide[t].next]
    /\ hide' = [hide EXCEPT ![t].pc = "linkBlink"]
    /\ UNCHANGED <<build, pidBase, Blink, Token, elev>>

\* The successor keeps its backward link to the unlinked entry.
LinkBlink_Skipped(t) ==
    /\ hide[t].pc = "linkBlink"
    /\ hide' = [hide EXCEPT ![t].pc = "selfBlink"]
    /\ UNCHANGED <<build, pidBase, Flink, Blink, Token, elev>>

\* Line 170: next->Blink = previous.
LinkBlink(t) ==
    /\ hide[t].pc = "linkBlink"
    /\ Blink' = [Blink EXCEPT ![hide[t].next] = hide[t].previous]
    /\ hide' = [hide EXCEPT ![t].pc = "selfBlink"]
    /\ UNCHANGED <<build, pidBase, Flink, Token, elev>>

\* Line 173: current->Blink = &current->Flink, the entry itself.
SelfBlink(t) ==
    /\ hide[t].pc = "selfBlink"
    /\ Blink' = [Blink EXCEPT ![hide[t].cur] = hide[t].cur]
    /\ hide' = [hide EXCEPT ![t].pc = "selfFlink"]
    /\ UNCHANGED <<build, pidBase, Flink, Token, elev>>

\* The unlinked entry keeps its forward link.
SelfFlink_Stale(t) ==
    /\ hide[t].pc = "selfFlink"
    /\ hide' = [hide EXCEPT ![t].pc = "done", ![t].status = STATUS_SUCCESS]
    /\ UNCHANGED <<build, pidBase, Flink, Blink, Token, elev>>

\* Line 174: current->Flink = &current->Flink; HideProcess then returns
\* STATUS_SUCCESS.
SelfFlink(t) ==
    /\ hide[t].pc = "selfFlink"
    /\ Flink' = [Flink EXCEPT ![hide[t].cur] = hide[t].cur]
    /\ hide' = [hide EXCEPT ![t].pc = "done", ![t].status = STATUS_SUCCESS]
    /\ UNCHANGED <<build, pidBase, Blink, Token, elev>>

\* ------------------------------------------------------------------------
\* Privilege elevator: ElevateProcess
\* ------------------------------------------------------------------------

\* ElevateProcess(targetPid), `result` the status of RtlGetVersion.  A copy at
\* the offset of a failed version query reads and writes 8 bytes outside the
\* two objects, memory this model does not hold: the call then returns, or
\* the system bug-checks on the access.
ElevateProcess(targetPid, result) ==
    /\ Running
    /\ NoHideRunning
    /\ LET target == PsLookupProcessByProcessId(targetPid)
           privileged == PsLookupProcessByProcessId(SYSTEM_PROCESS_PID)
           tokenOffset == GetTokenOffset(result, build)
           call == [ElevIdle EXCEPT !.pc = "done", !.pid = targetPid,
                                    !.result = result, !.tokenOffset = tokenOffset]
       IN
       IF target = {}
       THEN /\ \E status \in LookupFailure : elev' = [call EXCEPT !.status = status]
            /\ UNCHANGED Token
       ELSE LET tp == CHOOSE n \in target : TRUE IN
            IF privileged = {}
            THEN /\ \E status \in LookupFailure :
                      elev' = [call EXCEPT !.status = status,
                                           !.taken = <<tp>>, !.dropped = <<tp>>]
                 /\ UNCHANGED Token
            ELSE LET pp == CHOOSE n \in privileged : TRUE
                     done == [call EXCEPT !.status = STATUS_SUCCESS,
                                          !.touched = {tokenOffset},
                                          !.taken = <<tp, pp>>,
                                          !.dropped = <<pp, tp>>]
                 IN
                 IF tokenOffset # STATUS_UNSUCCESSFUL
                 THEN /\ Token' = [Token EXCEPT ![tp] = Token[pp]]
                      /\ elev' = done
                 ELSE /\ \/ elev' = done
                         \/ elev' = [call EXCEPT !.pc = "bugcheck",
                                                 !.touched = {tokenOffset},
                                                 !.taken = <<tp, pp>>]
                      /\ UNCHANGED Token
    /\ hide' = [t \in Hider |-> HideIdle]
    /\ UNCHANGED <<build, pidBase, Flink, Blink>>

\* ------------------------------------------------------------------------
\* Remote module patcher: PatchModule (src/Nidhogg/ModuleUtils.hpp)
\* ------------------------------------------------------------------------

\* The image of a module spans two pages; the first module is mapped at
\* ImageBase, the second right after it.
ImageBase == PageSize

ImageSize == 2 * PageSize

Addr == ImageBase..(ImageBase + 2 * ImageSize - 1)

\* ZwProtectVirtualMemory rounds the base address it is given down to its page
\* and writes it back through its BaseAddress argument.
PageBase(a) == a - (a % PageSize)

Page == {PageBase(a) : a \in Addr}

\* InLoadOrderModuleList of the target, in load order.
InLoadOrderModuleList ==
    <<[FullDllName |-> "host.exe", DllBase |-> ImageBase],
      [FullDllName |-> "target.dll", DllBase |-> ImageBase + ImageSize]>>

\* The names of a module's export directory, with the addresses
\* addresses[ordinals[j]] (relative to the image base): the first export
\* starts a page, the second does not.
ExportNames ==
    <<[name |-> "Beep", rva |-> PageSize],
      [name |-> "SleepEx", rva |-> PageSize + 2]>>

\* What the headers of the image hold (lines 99, 104, 109).
PEImage == {"valid", "no MZ", "no PE", "no export directory"}

\* char testPatch[6] (line 145), as unsigned bytes.
testPatch == <<184, 87, 0, 7, 128, 195>>

\* Another 6-byte patch a caller may supply (six NOPs).
NopPatch == <<144, 144, 144, 144, 144, 144>>

\* strlen of a buffer of bytes that a terminator follows.
StrLen(bytes) ==
    IF \E k \in DOMAIN bytes : bytes[k] = 0
    THEN (CHOOSE k \in DOMAIN bytes : bytes[k] = 0 /\ \A m \in 1..(k - 1) : bytes[m] # 0) - 1
    ELSE Len(bytes)

\* PatchedModule* ModuleToPatch: Pid, ModuleName, FunctionName, Patch.
PatchedModule ==
    [Pid : {SYSTEM_PROCESS_PID, 2 * SYSTEM_PROCESS_PID},
     ModuleName : {"target.dll", "absent.dll"},
     FunctionName : {"Beep", "SleepEx", "Absent"},
     Patch : {testPatch, NopPatch}]

\* The bytes of the images before any patch, and the protection of their
\* pages (PAGE_EXECUTE_READ).
Int3 == 204

PatchIdle ==
    [pc |-> "idle",
     req |-> [Pid |-> 0, ModuleName |-> "", FunctionName |-> "", Patch |-> <<>>],
     status |-> STATUS_UNSUCCESSFUL, success |-> TRUE,
     TargetProcess |-> 0, i |-> 0, LoaderData |-> FALSE,
     moduleImageBase |-> 0, j |-> 0,
     functionAddress |-> 0, resolved |-> 0, patchLen |-> 0,
     oldProtection |-> "", calls |-> <<>>, Memory0 |-> <<>>, Protection0 |-> <<>>]

PatchAtRest ==
    /\ patch = PatchIdle
    /\ Memory = [a \in Addr |-> Int3]
    /\ Protection = [p \in Page |-> "PAGE_EXECUTE_READ"]

\* The call made is appended to the calls of this PatchModule.
Called(p, call) == [p EXCEPT !.calls = Append(@, call)]

\* PatchModule returns `status`.
Return(p, status) == [p EXCEPT !.pc = "done", !.status = status]

\* Lines 14-29: entry; the routines resolved at load time are tested.
PatchEnter(ModuleToPatch, loaded) ==
    /\ patch.pc \in {"idle", "done"}
    /\ LET p == [PatchIdle EXCEPT !.req = ModuleToPatch,
                                  !.Memory0 = Memory, !.Protection0 = Protection]
       IN  patch' = IF loaded THEN [p EXCEPT !.pc = "moduleName"]
                    ELSE Return(p, p.status)
    /\ UNCHANGED <<Memory, Protection>>

\* Lines 32-36: the copy of the module name.
AllocModuleName(ok) ==
    /\ patch.pc = "moduleName"
    /\ patch' = IF ok THEN [Called(patch, "alloc moduleName") EXCEPT !.pc = "functionName"]
                ELSE Return(patch, patch.status)
    /\ UNCHANGED <<Memory, Protection>>

\* Lines 38-44: the copy of the function name.
AllocFunctionName(ok) ==
    /\ patch.pc = "functionName"
    /\ patch' = IF ok THEN [Called(patch, "alloc functionName") EXCEPT !.pc = "patch"]
                ELSE Return(Called(patch, "free moduleName"), patch.status)
    /\ UNCHANGED <<Memory, Protection>>

\* Lines 46-53: the patch buffer.  The memcpy of line 53 copies strlen(Patch)
\* bytes into functionName, a buffer of strlen(FunctionName) + 1 bytes: a
\* longer copy overruns the pool block, after which the call goes on or the
\* system bug-checks; a shorter one rewrites the name with itself.
AllocPatch(ok) ==
    /\ patch.pc = "patch"
    /\ IF ~ok
       THEN patch' = Return(Called(Called(patch, "free functionName"), "free moduleName"),
                            patch.status)
       ELSE LET p == [Called(patch, "alloc patch") EXCEPT !.pc = "lookup"] IN
            IF StrLen(patch.req.Patch) > Len(patch.req.FunctionName) + 1
            THEN \/ patch' = Called(p, "pool overrun")
                 \/ patch' = [Called(p, "pool overrun") EXCEPT !.pc = "bugcheck"]
            ELSE patch' = p
    /\ UNCHANGED <<Memory, Protection>>

\* Lines 56-57: the target process is looked up.
LookupTarget ==
    /\ patch.pc = "lookup"
    /\ LET found == PsLookupProcessByProcessId(patch.req.Pid) IN
       patch' = IF found = {} THEN Return(patch, patch.status)
                ELSE [Called(patch, "lookup") EXCEPT
                         !.pc = "attach", !.TargetProcess = CHOOSE n \in found : TRUE]
    /\ UNCHANGED <<Memory, Protection>>

\* Lines 59-65: attach to the target, read its PEB.
Attach(peb) ==
    /\ patch.pc = "attach"
    /\ patch' = [Called(patch, "attach") EXCEPT !.pc = IF peb THEN "wait" ELSE "CleanUp"]
    /\ UNCHANGED <<Memory, Protection>>

\* A read of targetPeb->LoaderData: once set by the target, it stays set.
LoaderDataRead == IF patch.LoaderData THEN {TRUE} ELSE BOOLEAN

\* The loop of lines 67-70 admits one more delay than it should.
WaitLoaderData_OneMore(now) ==
    /\ patch.pc = "wait"
    /\ patch' = IF ~now /\ patch.i <= LdrAttempts
                THEN [Called(patch, "delay") EXCEPT !.i = @ + 1, !.LoaderData = now]
                ELSE [patch EXCEPT !.pc = "LoaderData", !.LoaderData = now]
    /\ UNCHANGED <<Memory, Protection>>

\* Lines 67-70: for (i = 0; !targetPeb->LoaderData && i < 10; i++) delay.
WaitLoaderData(now) ==
    /\ patch.pc = "wait"
    /\ patch' = IF ~now /\ patch.i < LdrAttempts
                THEN [Called(patch, "delay") EXCEPT !.i = @ + 1, !.LoaderData = now]
                ELSE [patch EXCEPT !.pc = "LoaderData", !.LoaderData = now]
    /\ UNCHANGED <<Memory, Protection>>

\* Lines 72-75: the loader data is read once more.
CheckLoaderData(now) ==
    /\ patch.pc = "LoaderData"
    /\ patch' = [patch EXCEPT !.pc = IF now THEN "modules" ELSE "CleanUp",
                              !.LoaderData = now]
    /\ UNCHANGED <<Memory, Protection>>

\* Lines 78-93: the first module of the load-order list with the name asked
\* for gives the image base.
ScanModules ==
    /\ patch.pc = "modules"
    /\ LET hits == {k \in DOMAIN InLoadOrderModuleList :
                       InLoadOrderModuleList[k].FullDllName = patch.req.ModuleName}
       IN  patch' =
             IF hits = {} THEN [patch EXCEPT !.pc = "CleanUp"]
             ELSE [patch EXCEPT
                     !.pc = "image",
                     !.moduleImageBase =
                         InLoadOrderModuleList[CHOOSE k \in hits : \A m \in hits : k <= m].DllBase]
    /\ UNCHANGED <<Memory, Protection>>

\* Lines 96-110: the DOS header, the NT headers and the export directory.
ValidateImage(image) ==
    /\ patch.pc = "image"
    /\ patch' = [patch EXCEPT !.pc = IF image = "valid" THEN "exports" ELSE "CleanUp"]
    /\ UNCHANGED <<Memory, Protection>>

\* Lines 113-120 and 162: the names of the export directory are compared with
\* the function name, up to the first match; without one the loop ends.
ScanExports ==
    /\ patch.pc = "exports"
    /\ LET hits == {k \in DOMAIN ExportNames : ExportNames[k].name = patch.req.FunctionName}
       IN  patch' =
             IF hits = {} THEN [patch EXCEPT !.pc = "finish", !.j = Len(ExportNames)]
             ELSE [patch EXCEPT !.pc = "open",
                                !.j = (CHOOSE k \in hits : \A m \in hits : k <= m) - 1]
    /\ UNCHANGED <<Memory, Protection>>

\* Lines 121-125: a handle to the target is opened.
OpenHandle(ok) ==
    /\ patch.pc = "open"
    /\ patch' = IF ok THEN [Called(patch, "open") EXCEPT !.pc = "protect"]
                ELSE [patch EXCEPT !.pc = "finish", !.success = FALSE]
    /\ UNCHANGED <<Memory, Protection>>

\* The failure path of the protection change leaves the handle open.
Protect_LeaksHandle(status) ==
    /\ patch.pc = "protect"
    /\ LET functionAddress == patch.moduleImageBase + ExportNames[patch.j + 1].rva
           base == PageBase(functionAddress)
           p == [patch EXCEPT !.status = status, !.resolved = functionAddress]
       IN  IF status = STATUS_SUCCESS
           THEN /\ patch' = [Called(p, "protect") EXCEPT
                                !.pc = "copy", !.functionAddress = base,
                                !.patchLen = PageSize,
                                !.oldProtection = Protection[base]]
                /\ Protection' = [Protection EXCEPT ![base] = "PAGE_EXECUTE_READWRITE"]
           ELSE /\ patch' = [p EXCEPT !.pc = "finish", !.success = FALSE,
                                      !.functionAddress = functionAddress,
                                      !.patchLen = PatchLen]
                /\ UNCHANGED Protection
    /\ UNCHANGED Memory

\* Lines 127-139: the function's address is computed and the protection of
\* the patchLen bytes there is changed to PAGE_EXECUTE_READWRITE.  On success
\* ZwProtectVirtualMemory has written the page's base into functionAddress,
\* the size of the region into patchLen and the former protection into
\* oldProtection; on failure the handle is closed.
Protect(status) ==
    /\ patch.pc = "protect"
    /\ LET functionAddress == patch.moduleImageBase + ExportNames[patch.j + 1].rva
           base == PageBase(functionAddress)
           p == [patch EXCEPT !.status = status, !.resolved = functionAddress]
       IN  IF status = STATUS_SUCCESS
           THEN /\ patch' = [Called(p, "protect") EXCEPT
                                !.pc = "copy", !.functionAddress = base,
                                !.patchLen = PageSize,
                                !.oldProtection = Protection[base]]
                /\ Protection' = [Protection EXCEPT ![base] = "PAGE_EXECUTE_READWRITE"]
           ELSE /\ patch' = [Called(p, "close") EXCEPT
                                !.pc = "finish", !.success = FALSE,
                                !.functionAddress = functionAddress,
                                !.patchLen = PatchLen]
                /\ UNCHANGED Protection
    /\ UNCHANGED Memory

\* Lines 141-153: the 6 bytes of testPatch are copied to functionAddress in
\* the target.
Copy(status) ==
    /\ patch.pc = "copy"
    /\ IF status = STATUS_SUCCESS
       THEN /\ Memory' = [a \in Addr |->
                            IF a - patch.functionAddress \in 0..(PatchLen - 1)
                            THEN testPatch[a - patch.functionAddress + 1]
                            ELSE Memory[a]]
            /\ patch' = [Called(patch, "copy") EXCEPT !.pc = "restore", !.status = status]
       ELSE /\ UNCHANGED Memory
            /\ patch' = [Called(patch, "copy failed") EXCEPT
                            !.pc = "restore", !.status = status, !.success = FALSE]
    /\ UNCHANGED Protection

\* Line 156: the former protection is set again; the result is not looked at.
Restore(ok) ==
    /\ patch.pc = "restore"
    /\ patch' = [Called(patch, "restore") EXCEPT !.pc = "close"]
    /\ Protection' = IF ok THEN [Protection EXCEPT ![patch.functionAddress] = patch.oldProtection]
                     ELSE Protection
    /\ UNCHANGED Memory

\* Lines 158-160: the handle is closed.
CloseHandle ==
    /\ patch.pc = "close"
    /\ patch' = [Called(patch, "close") EXCEPT !.pc = "finish"]
    /\ UNCHANGED <<Memory, Protection>>

\* Lines 164-165: if (success) status = STATUS_SUCCESS.
Finish ==
    /\ patch.pc = "finish"
    /\ patch' = [patch EXCEPT !.pc = "CleanUp",
                              !.status = IF patch.success THEN STATUS_SUCCESS ELSE @]
    /\ UNCHANGED <<Memory, Protection>>

\* An exit that goes around the detach.
CleanUp_NoDetach ==
    /\ patch.pc = "CleanUp"
    /\ patch' = Return(Called(Called(Called(Called(patch,
                    "free moduleName"), "free functionName"), "free patch"), "deref"),
                    patch.status)
    /\ UNCHANGED <<Memory, Protection>>

\* An exit that keeps the reference to the target.
CleanUp_NoDereference ==
    /\ patch.pc = "CleanUp"
    /\ patch' = Return(Called(Called(Called(Called(patch,
                    "detach"), "free moduleName"), "free functionName"), "free patch"),
                    patch.status)
    /\ UNCHANGED <<Memory, Protection>>

\* Lines 166-172, CleanUp: detach, free the three buffers, dereference the
\* target, return status.
CleanUp ==
    /\ patch.pc = "CleanUp"
    /\ patch' = Return(Called(Called(Called(Called(Called(patch,
                    "detach"), "free moduleName"), "free functionName"), "free patch"),
                    "deref"), patch.status)
    /\ UNCHANGED <<Memory, Protection>>

\* Failure statuses of ZwProtectVirtualMemory and MmCopyVirtualMemory
\* (STATUS_ACCESS_VIOLATION).
MemoryStatus == {STATUS_SUCCESS, -1073741819}

\* The objects form one circular list, in the order of their numbers.
Ring == [n \in Node |-> IF n = NumNodes THEN 1 ELSE n + 1]

RingBack == [n \in Node |-> IF n = 1 THEN NumNodes ELSE n - 1]

KernelAtRest ==
    /\ build = 19041
    /\ pidBase = SYSTEM_PROCESS_PID
    /\ Flink = Ring
    /\ Blink = RingBack
    /\ Token = [n \in Node |-> n]
    /\ hide = [t \in Hider |-> HideIdle]
    /\ elev = ElevIdle
    /\ overlap = FALSE
    /\ PatchAtRest

\* ------------------------------------------------------------------------
\* Specification of the registry and the filter, one call at a time
\* ------------------------------------------------------------------------

vars == <<regVars, lockVars, kVars, overlap, mVars>>

Idle == [pc |-> "idle", op |-> "none", pid |-> 0, req |-> 0]

RegInit ==
    /\ Pids = [i \in Slot |-> 0]
    /\ PidsCount = 0
    /\ last = NoCall
    /\ calls = 0
    /\ tracked = [p \in Pid |-> "never"]
    /\ zeroUsed = FALSE

LockInit ==
    /\ Lock = 0
    /\ thr = [t \in Thread |-> Idle]

Init == RegInit /\ LockInit /\ KernelAtRest

Add == (\E pid \in Pid : AddProcess(pid)) /\ UNCHANGED <<lockVars, kVars, overlap, mVars>>

Remove == (\E pid \in Pid : RemoveProcess(pid)) /\ UNCHANGED <<lockVars, kVars, overlap, mVars>>

Open ==
    /\ \E pid \in NonZeroPid, kernel \in BOOLEAN, req \in RequestMask :
            OnPreOpenProcess(pid, kernel, req)
    /\ UNCHANGED <<lockVars, kVars, overlap, mVars>>

Next == Add \/ Remove \/ Open

Spec == Init /\ [][Next]_vars

\* ------------------------------------------------------------------------
\* Specification of concurrent callers serialized by pGlobals.Lock
\* ------------------------------------------------------------------------

\* The mask concurrent opens ask for: full access.
ConcurrentRequestMask == {PROCESS_ALL_ACCESS}

\* A thread enters AddProcess's or RemoveProcess's caller, or the filter of a
\* non-kernel open, and reaches the lock.
Enter(t, op, pid, req) ==
    /\ thr[t].pc = "idle"
    /\ thr' = [thr EXCEPT ![t] = [pc |-> "wait", op |-> op, pid |-> pid, req |-> req]]
    /\ UNCHANGED <<Lock, regVars, kVars, overlap, mVars>>

\* A kernel-handle open returns before the lock is taken.
KernelOpen(t, pid, req) ==
    /\ thr[t].pc = "idle"
    /\ OnPreOpenProcess(pid, TRUE, req)
    /\ UNCHANGED <<lockVars, kVars, overlap, mVars>>

\* AutoLock locker(pGlobals.Lock) in OnPreOpenProcess.
AutoLock(t) ==
    /\ thr[t].pc = "wait"
    /\ thr[t].op = "OnPreOpenProcess"
    /\ Lock = 0
    /\ Lock' = t
    /\ thr' = [thr EXCEPT ![t].pc = "held"]
    /\ UNCHANGED <<regVars, kVars, overlap, mVars>>

\* The same lock, taken by the caller of AddProcess and RemoveProcess.
CallerLock(t) ==
    /\ thr[t].pc = "wait"
    /\ thr[t].op \in {"AddProcess", "RemoveProcess"}
    /\ Lock = 0
    /\ Lock' = t
    /\ thr' = [thr EXCEPT ![t].pc = "held"]
    /\ UNCHANGED <<regVars, kVars, overlap, mVars>>

\* The call's body, run by the holder of the lock.
RunLocked(t) ==
    /\ thr[t].pc = "held"
    /\ Lock = t
    /\ \/ thr[t].op = "AddProcess" /\ AddProcess(thr[t].pid)
       \/ thr[t].op = "RemoveProcess" /\ RemoveProcess(thr[t].pid)
       \/ /\ thr[t].op = "OnPreOpenProcess"
          /\ OnPreOpenProcess(thr[t].pid, FALSE, thr[t].req)
    /\ thr' = [thr EXCEPT ![t].pc = "exit"]
    /\ UNCHANGED <<Lock, kVars, overlap, mVars>>

\* The lock is released when the holder leaves its scope.
Unlock(t) ==
    /\ thr[t].pc = "exit"
    /\ Lock = t
    /\ Lock' = 0
    /\ thr' = [thr EXCEPT ![t] = Idle]
    /\ UNCHANGED <<regVars, kVars, overlap, mVars>>

EnterAdd == \E t \in Thread, pid \in Pid : Enter(t, "AddProcess", pid, 0)

EnterRemove == \E t \in Thread, pid \in Pid : Enter(t, "RemoveProcess", pid, 0)

EnterOpen == \E t \in Thread, pid \in NonZeroPid, req \in ConcurrentRequestMask :
                Enter(t, "OnPreOpenProcess", pid, req)

EnterKernelOpen == \E t \in Thread, pid \in NonZeroPid, req \in ConcurrentRequestMask :
                      KernelOpen(t, pid, req)

Acquire == \E t \in Thread : AutoLock(t)

AcquireByCaller == \E t \in Thread : CallerLock(t)

Run == \E t \in Thread : RunLocked(t)

Release == \E t \in Thread : Unlock(t)

NextLock ==
    \/ EnterAdd
    \/ EnterRemove
    \/ EnterOpen
    \/ EnterKernelOpen
    \/ Acquire
    \/ AcquireByCaller
    \/ Run
    \/ Release

SpecLock == Init /\ [][NextLock]_vars

\* ------------------------------------------------------------------------
\* Specification of the hider and the elevator, one call at a time
\* ------------------------------------------------------------------------

\* Any build; the system process (pid 4) is the first object, or no object is.
KernelInit ==
    /\ build \in BuildNumber
    /\ pidBase \in {SYSTEM_PROCESS_PID, 2 * SYSTEM_PROCESS_PID}
    /\ Flink = Ring
    /\ Blink = RingBack
    /\ Token = [n \in Node |-> n]
    /\ hide = [t \in Hider |-> HideIdle]
    /\ elev = ElevIdle
    /\ overlap = FALSE
    /\ PatchAtRest

InitKernel == RegInit /\ LockInit /\ KernelInit

\* A step of the HideProcess call of thread t.
HideStep(t) ==
    \/ HideFirst(t)
    \/ HideWalk(t)
    \/ ReadPrevious(t)
    \/ ReadNext(t)
    \/ LinkFlink(t)
    \/ LinkBlink(t)
    \/ SelfBlink(t)
    \/ SelfFlink(t)

Hide ==
    /\ NoHideRunning
    /\ \E pid \in KernelPid, result \in VersionResult, current \in Node :
          HideCall(1, pid, result, current)
    /\ UNCHANGED <<regVars, lockVars, overlap, mVars>>

HideRun == HideStep(1) /\ UNCHANGED <<regVars, lockVars, overlap, mVars>>

Elevate ==
    /\ \E pid \in KernelPid, result \in VersionResult : ElevateProcess(pid, result)
    /\ UNCHANGED <<regVars, lockVars, overlap, mVars>>

NextKernel == Hide \/ HideRun \/ Elevate

SpecKernel == InitKernel /\ [][NextKernel]_vars

\* The thread that runs HideProcess keeps running.
SpecKernelLive == SpecKernel /\ WF_vars(HideRun)

\* ------------------------------------------------------------------------
\* Specification of two HideProcess calls on concurrent threads
\* ------------------------------------------------------------------------

\* The pids of the objects of the list.
ListPid == {UniqueProcessId(n) : n \in Node}

\* A thread calls HideProcess, once, for a pid of the list the other thread
\* does not ask for; no lock is taken, the other call may be in progress.
HideEnter ==
    /\ \E t \in Hider, pid \in ListPid, current \in Node :
          /\ hide[t].pc = "idle"
          /\ \A u \in Hider \ {t} : hide[u].pid # pid
          /\ HideCall(t, pid, STATUS_SUCCESS, current)
          /\ overlap' = (overlap \/ \E u \in Hider \ {t} : hide[u].pc \notin {"idle", "done"})
    /\ UNCHANGED <<regVars, lockVars, mVars>>

\* A read or a write of the call of thread t.
HideThread(t) == HideStep(t) /\ UNCHANGED <<regVars, lockVars, overlap, mVars>>

HideFirstThread == HideThread(1)

HideSecondThread == HideThread(2)

NextHiders == HideEnter \/ HideFirstThread \/ HideSecondThread

\* Both threads keep running (preemptible kernel threads).
SpecHiders ==
    /\ Init
    /\ [][NextHiders]_vars
    /\ WF_vars(HideFirstThread)
    /\ WF_vars(HideSecondThread)

\* ------------------------------------------------------------------------
\* Specification of the patcher and the elevator, one call at a time
\* ------------------------------------------------------------------------

\* One build; the system process (pid 4) is the first object, or no object is.
InitPatch ==
    /\ RegInit
    /\ LockInit
    /\ build = 19041
    /\ pidBase \in {SYSTEM_PROCESS_PID, 2 * SYSTEM_PROCESS_PID}
    /\ Flink = Ring
    /\ Blink = RingBack
    /\ Token = [n \in Node |-> n]
    /\ hide = [t \in Hider |-> HideIdle]
    /\ elev = ElevIdle
    /\ overlap = FALSE
    /\ PatchAtRest

\* A call of PatchModule; the record of ElevateProcess is reset.
Patch ==
    /\ Running
    /\ \E ModuleToPatch \in PatchedModule, loaded \in BOOLEAN :
          PatchEnter(ModuleToPatch, loaded)
    /\ elev' = ElevIdle
    /\ UNCHANGED <<regVars, lockVars, build, pidBase, Flink, Blink, Token, hide, overlap>>

\* A step of the PatchModule call in progress.
PatchStep ==
    \/ \E ok \in BOOLEAN : AllocModuleName(ok)
    \/ \E ok \in BOOLEAN : AllocFunctionName(ok)
    \/ \E ok \in BOOLEAN : AllocPatch(ok)
    \/ LookupTarget
    \/ \E peb \in BOOLEAN : Attach(peb)
    \/ \E now \in LoaderDataRead : WaitLoaderData(now)
    \/ \E now \in LoaderDataRead : CheckLoaderData(now)
    \/ ScanModules
    \/ \E image \in PEImage : ValidateImage(image)
    \/ ScanExports
    \/ \E ok \in BOOLEAN : OpenHandle(ok)
    \/ \E status \in MemoryStatus : Protect(status)
    \/ \E status \in MemoryStatus : Copy(status)
    \/ \E ok \in BOOLEAN : Restore(ok)
    \/ CloseHandle
    \/ Finish
    \/ CleanUp

PatchRun == PatchStep /\ UNCHANGED <<regVars, lockVars, kVars, overlap>>

\* A call of ElevateProcess, between two calls of PatchModule; the record of
\* PatchModule is reset.
ElevateBetween ==
    /\ patch.pc \in {"idle", "done"}
    /\ \E pid \in KernelPid, result \in VersionResult : ElevateProcess(pid, result)
    /\ patch' = PatchIdle
    /\ UNCHANGED <<regVars, lockVars, overlap, Memory, Protection>>

NextPatch == Patch \/ PatchRun \/ ElevateBetween

SpecPatch == InitPatch /\ [][NextPatch]_vars

\* The thread that runs PatchModule keeps running.
SpecPatchLive == SpecPatch /\ WF_vars(PatchRun)

\* ------------------------------------------------------------------------
\* Properties of the registry and the filter
\* ------------------------------------------------------------------------

\* The pid occupies a slot of the Pids array.
Held(pid) == \E i \in Slot : Pids[i] = pid

\* Every slot of the Pids array is occupied.
AllHeld == \A i \in Slot : Pids[i] # 0

\* The 21 bit positions of an access mask (PROCESS_ALL_ACCESS).
RECURSIVE Pow2(_)
Pow2(n) == IF n = 0 THEN 1 ELSE 2 * Pow2(n - 1)

MaskBit == {Pow2(n) : n \in 0..20}

StrippedBits == {PROCESS_VM_OPERATION, PROCESS_VM_READ, PROCESS_CREATE_THREAD,
                 PROCESS_DUP_HANDLE, PROCESS_TERMINATE}

\* `access` is `req` with exactly the bits of `cleared` cleared.
ClearedExactly(req, access, cleared) ==
    \A b \in MaskBit : HasBit(access, b) <=> (HasBit(req, b) /\ b \notin cleared)

FilteredOpen == last.op = "OnPreOpenProcess" /\ ~last.kernel

\* C1: over calls with non-zero pids, FindProcess(pid) returns true from a
\* successful AddProcess(pid) until the next RemoveProcess(pid), whatever other
\* pids were added or removed meanwhile, and false after that RemoveProcess.
C1_FindFollowsAddRemove ==
    ~zeroUsed =>
        \A p \in NonZeroPid :
            /\ tracked[p] = "live" => FindProcess(p) = {TRUE}
            /\ tracked[p] = "removed" => FindProcess(p) = {FALSE}

\* C2: RemoveProcess(pid) of a pid never passed to AddProcess returns false
\* and leaves Pids and PidsCount unchanged (stated for the calls whose scan
\* stays inside the Pids array).
C2_RemoveNeverAdded ==
    [][\A p \in Pid :
          (tracked[p] = "never" /\ ~ScanOverruns /\ RemoveProcess(p)) =>
              (~last'.ret /\ Pids' = Pids /\ PidsCount' = PidsCount)]_vars

\* C3: PidsCount never exceeds MAX_PIDS, and an AddProcess issued when
\* MAX_PIDS entries are held returns false and leaves Pids and PidsCount
\* unchanged.
C3_CapacityRespected ==
    [][/\ PidsCount' <= MAX_PIDS
       /\ \A p \in Pid :
             (AllHeld /\ AddProcess(p)) =>
                 (~last'.ret /\ Pids' = Pids /\ PidsCount' = PidsCount)]_vars

\* C4: a non-kernel open of a pid in the registry ends with the requested mask
\* less exactly the five bits; of a pid not in the registry, with the mask as
\* requested (stated for registries that were only ever passed non-zero pids).
C4_FilterByRegistry ==
    (FilteredOpen /\ ~zeroUsed) =>
        IF Held(last.pid)
        THEN ClearedExactly(last.req, last.access, StrippedBits)
        ELSE last.access = last.req

C6_NoStaleRead ==
    (FilteredOpen /\ ~zeroUsed) =>
        /\ tracked[last.pid] = "live" =>
              ClearedExactly(last.req, last.access, StrippedBits)
        /\ tracked[last.pid] = "removed" => last.access = last.req

\* The slots a pid occupies.
SlotsOf(pid) == {i \in Slot : Pids[i] = pid}

NoDuplicates == \A p \in NonZeroPid : Cardinality(SlotsOf(p)) <= 1

\* C17 as stated: after any sequence of AddProcess and RemoveProcess calls, no
\* process identifier occupies more than one slot of the Pids array.
C17_NoDuplicates_AsStated == NoDuplicates

\* C17 amended: the registry starts without duplicates, and no RemoveProcess
\* and no AddProcess of a pid that occupies no slot (the caller's
\* de-duplication) makes a pid occupy more than one slot.
C17_NoDuplicates ==
    /\ NoDuplicates
    /\ [][(/\ NoDuplicates
           /\ ~\E p \in NonZeroPid : Held(p) /\ AddProcess(p)) => NoDuplicates']_vars

C17_NoDuplicates_Reached ==
    /\ NoDuplicates
    /\ Held(OtherPid)
    /\ Held(ScenarioPid)
    /\ last.op = "AddProcess"
    /\ last.ret

\* C18: after any sequence of AddProcess and RemoveProcess calls, with any
\* pid arguments, PidsCount is the number of non-zero slots of the Pids array.
C18_CountMatchesSlots ==
    PidsCount = Cardinality({i \in Slot : Pids[i] # 0})

\* ------------------------------------------------------------------------
\* Properties of the hider and the elevator
\* ------------------------------------------------------------------------

\* The objects met from `start` along the links F, up to the return to start.
RECURSIVE Chain(_, _, _, _)
Chain(F, start, cur, left) ==
    IF left = 0 THEN <<>>
    ELSE IF F[cur] = start THEN <<cur>>
    ELSE <<cur>> \o Chain(F, start, F[cur], left - 1)

RingOf(F, start) == Chain(F, start, start, NumNodes)

Range(q) == {q[i] : i \in DOMAIN q}

\* q without the object k.
RECURSIVE Without(_, _)
Without(q, k) ==
    IF q = <<>> THEN <<>>
    ELSE IF Head(q) = k THEN Without(Tail(q), k)
    ELSE <<Head(q)>> \o Without(Tail(q), k)

\* The objects of q, in this order, are a circular doubly linked list under
\* the links F and B.
CircularList(F, B, q) ==
    /\ q # <<>>
    /\ Cardinality(Range(q)) = Len(q)
    /\ \A i \in 1..Len(q) :
          LET j == IF i = Len(q) THEN 1 ELSE i + 1 IN
          F[q[i]] = q[j] /\ B[q[j]] = q[i]

\* The list the call of thread 1 was made on: that of the calling process.
Ring0 == RingOf(hide[1].Flink0, hide[1].current)

\* The objects of that list that carry the pid asked for.
Carriers == {n \in Range(Ring0) : UniqueProcessId(n) = hide[1].pid}

HideDone == hide[1].pc = "done"

HideStarted == hide[1].pc \notin {"idle", "done"}

\* The call was made on a well-formed circular list.
HideOnList ==
    /\ hide[1].pc # "idle"
    /\ CircularList(hide[1].Flink0, hide[1].Blink0, Ring0)

\* What C7 promises of a finished call whose pid is on the list.
Unlinked ==
    LET k == CHOOSE n \in Carriers : TRUE
        rest == Without(Ring0, k)
    IN  /\ hide[1].status = STATUS_SUCCESS
        /\ Flink[k] = k
        /\ Blink[k] = k
        /\ rest # <<>> => CircularList(Flink, Blink, rest)

\* C7 as stated: HideProcess(pid) on a well-formed circular list of N objects
\* with distinct pids, one of them pid, returns STATUS_SUCCESS, leaves the
\* other N-1 a circular doubly linked list in their order, and leaves the
\* unlinked object's Flink and Blink pointing to the object itself.
C7_Unlink_AsStated ==
    (HideDone /\ HideOnList /\ Carriers # {}) => Unlinked

\* C7 amended: the same, for the calls whose OS version query succeeds (a
\* call whose query fails returns STATUS_UNSUCCESSFUL and unlinks nothing).
C7_Unlink ==
    (HideDone /\ NT_SUCCESS(hide[1].result) /\ HideOnList /\ Carriers # {}) =>
        Unlinked

C7_Unlink_Reached ==
    /\ HideDone
    /\ NT_SUCCESS(hide[1].result)
    /\ HideOnList
    /\ Len(Ring0) = NumNodes
    /\ Carriers # {}
    /\ hide[1].current \notin Carriers
    /\ Unlinked

\* What C8 promises while and after a call walks a list without the pid.
WalkedOnce ==
    /\ Flink = hide[1].Flink0
    /\ Blink = hide[1].Blink0
    /\ \A n \in Node : hide[1].visits[n] <= 1
    /\ HideDone =>
          /\ hide[1].status = STATUS_SUCCESS
          /\ \A n \in Node : hide[1].visits[n] = (IF n \in Range(Ring0) THEN 1 ELSE 0)

\* C8 as stated: HideProcess(pid) on a well-formed circular list no object of
\* which carries pid returns STATUS_SUCCESS after visiting every object once,
\* with every Flink and Blink unchanged.
C8_NotFound_AsStated ==
    (HideOnList /\ Carriers = {}) => WalkedOnce

\* C8 amended: the same, for the calls whose OS version query succeeds: such
\* a call ends, having visited every object of the list once and no object
\* twice, returns STATUS_SUCCESS and changes no Flink and no Blink.
C8_NotFound ==
    /\ []((NT_SUCCESS(hide[1].result) /\ HideOnList /\ Carriers = {}) => WalkedOnce)
    /\ (HideStarted /\ Carriers = {}) ~> HideDone

C8_NotFound_Reached ==
    /\ HideDone
    /\ NT_SUCCESS(hide[1].result)
    /\ HideOnList
    /\ Len(Ring0) = NumNodes
    /\ Carriers = {}
    /\ WalkedOnce

\* C9: when the OS version query fails, HideProcess and ElevateProcess return
\* a failure status and access no process object at an offset the resolver
\* gave.
C9_VersionQueryFails ==
    /\ (HideDone /\ ~NT_SUCCESS(hide[1].result)) =>
          (~NT_SUCCESS(hide[1].status) /\ hide[1].touched = {})
    /\ (elev.pc # "idle" /\ ~NT_SUCCESS(elev.result)) =>
          (elev.pc = "done" /\ ~NT_SUCCESS(elev.status) /\ elev.touched = {})

\* C10: ElevateProcess changes kernel state only when both lookups succeed.
\* If one fails it returns that failure and no field of a process object
\* changes; if both succeed the target's token field ends equal to that of
\* the process of pid 4 and no other field of either changes.
C10_ElevateCopiesToken ==
    [][\A pid \in KernelPid, result \in VersionResult :
          ElevateProcess(pid, result) =>
              LET target == PsLookupProcessByProcessId(pid)
                  privileged == PsLookupProcessByProcessId(SYSTEM_PROCESS_PID)
              IN  /\ elev'.pc = "done"
                  /\ Flink' = Flink
                  /\ Blink' = Blink
                  /\ IF target = {} \/ privileged = {}
                     THEN ~NT_SUCCESS(elev'.status) /\ Token' = Token
                     ELSE /\ NT_SUCCESS(elev'.status)
                          /\ \A tp \in target, pp \in privileged :
                                /\ Token'[tp] = Token[pp]
                                /\ \A n \in Node \ {tp} : Token'[n] = Token[n]]_vars

\* ------------------------------------------------------------------------
\* Properties of the patcher
\* ------------------------------------------------------------------------

PatchDone == patch.pc = "done"

\* The positions of a call among the calls PatchModule has made.
At(call) == {k \in DOMAIN patch.calls : patch.calls[k] = call}

Count(call) == Cardinality(At(call))

Did(call) == At(call) # {}

\* The exits of PatchModule that C11 lists.
ModuleNotFound == PatchDone /\ patch.LoaderData /\ patch.moduleImageBase = 0

ExportNotFound == PatchDone /\ patch.j = Len(ExportNames)

OpenFailed == PatchDone /\ patch.moduleImageBase # 0 /\ ~patch.success /\ ~Did("open")

ProtectFailed == PatchDone /\ Did("open") /\ ~Did("protect")

CopyFailed == PatchDone /\ Did("copy failed")

\* C11: PatchModule returns a status other than STATUS_SUCCESS when the module
\* is not in the load-order list, when no exported name matches, when the
\* handle cannot be opened, when the protection change fails and when the
\* copy fails; when no exported name matches, no protection is changed and
\* nothing is written to the target.
C11_FailuresReported ==
    /\ (ModuleNotFound \/ ExportNotFound \/ OpenFailed \/ ProtectFailed \/ CopyFailed) =>
          patch.status # STATUS_SUCCESS
    /\ ExportNotFound =>
          /\ ~Did("protect") /\ ~Did("copy") /\ ~Did("copy failed")
          /\ Memory = patch.Memory0
          /\ Protection = patch.Protection0

\* C12: after PatchModule, called with a 6-byte patch for an export that
\* resolves, returned STATUS_SUCCESS, the 6 bytes at the function's address
\* are the caller's patch bytes and no other byte of the target has changed
\* (stated for the calls whose staging copy stays inside its buffer).
C12_PatchWritten ==
    (PatchDone /\ patch.status = STATUS_SUCCESS /\ Did("copy") /\ ~Did("pool overrun")) =>
        \A a \in Addr :
            Memory[a] = IF a - patch.resolved \in 0..(PatchLen - 1)
                        THEN patch.req.Patch[a - patch.resolved + 1]
                        ELSE patch.Memory0[a]

\* C13: once opened, the handle is closed exactly once on every path; once
\* the protection change succeeded, the copy comes right after it, a restore
\* is attempted after the copy, failed or not, and before the close; the copy
\* happens only between the change and the restore; when the change fails the
\* protection keeps its value.
C13_HandleAndProtection ==
    /\ Count("open") <= 1
    /\ Count("close") <= Count("open")
    /\ Count("restore") <= Count("protect")
    /\ \A k \in At("copy") \cup At("copy failed") :
          /\ k > 1 /\ patch.calls[k - 1] = "protect"
          /\ k < Len(patch.calls) => patch.calls[k + 1] = "restore"
    /\ \A k \in At("restore") :
          /\ k > 1 /\ patch.calls[k - 1] \in {"copy", "copy failed"}
          /\ k < Len(patch.calls) => patch.calls[k + 1] = "close"
    /\ \A k \in At("protect") : k > 1 /\ patch.calls[k - 1] = "open"
    /\ PatchDone =>
          /\ Count("close") = Count("open")
          /\ Count("restore") = Count("protect")
          /\ Count("copy") + Count("copy failed") = Count("protect")
          /\ ProtectFailed => Protection = patch.Protection0

C13_HandleAndProtection_Reached ==
    /\ PatchDone
    /\ CopyFailed
    /\ Count("open") = 1
    /\ Count("protect") = 1
    /\ Count("restore") = 1
    /\ Count("close") = 1

\* C14: on every exit of PatchModule, the failed lookup of the target
\* included, each buffer allocated (module name, function name, patch) has
\* been freed exactly once (stated for the calls whose staging copy stays
\* inside its buffer).
C14_BuffersFreed ==
    (PatchDone /\ ~Did("pool overrun")) =>
        /\ Count("free moduleName") = Count("alloc moduleName")
        /\ Count("free functionName") = Count("alloc functionName")
        /\ Count("free patch") = Count("alloc patch")

\* C15: every attach of PatchModule is followed by exactly one detach before
\* the return, on every branch, and no detach is made without an attach.
C15_AttachDetach ==
    /\ Count("attach") <= 1
    /\ Count("detach") <= Count("attach")
    /\ \A k \in At("detach") : \E m \in At("attach") : m < k
    /\ PatchDone => Count("detach") = Count("attach")

C15_AttachDetach_Reached ==
    /\ ExportNotFound
    /\ Count("attach") = 1
    /\ Count("detach") = 1

\* The references ElevateProcess took and dropped, per process object.
Times(q, n) == Cardinality({k \in DOMAIN q : q[k] = n})

\* C16: when ElevateProcess or PatchModule returns, every process object
\* whose lookup succeeded has been dereferenced exactly once per lookup, and
\* no object is dereferenced whose lookup failed or was not made.
C16_ReferencesReleased ==
    /\ Count("deref") <= Count("lookup")
    /\ \A k \in At("deref") : \E m \in At("lookup") : m < k
    /\ PatchDone => Count("deref") = Count("lookup")
    /\ \A n \in Node : Times(elev.dropped, n) <= Times(elev.taken, n)
    /\ elev.pc = "done" =>
          \A n \in Node : Times(elev.dropped, n) = Times(elev.taken, n)

C16_ReferencesReleased_Reached ==
    /\ PatchDone
    /\ CopyFailed
    /\ Count("lookup") = 1
    /\ Count("deref") = 1

\* C19: the wait for the loader data makes at most 10 delays; it goes on to
\* the scan of the modules once the pointer is read non-null, gives up with a
\* failure status when the pointer is still null after the 10th delay, and
\* always ends.
C19_BoundedWait ==
    /\ [](/\ Count("delay") <= LdrAttempts
          /\ patch.pc = "modules" => patch.LoaderData
          /\ (PatchDone /\ Did("attach") /\ ~patch.LoaderData) =>
                patch.status # STATUS_SUCCESS)
    /\ [][/\ (patch.pc = "wait" /\ patch'.LoaderData) => patch'.pc = "LoaderData"
          /\ (patch.pc = "wait" /\ patch'.pc = "wait") => Count("delay") < LdrAttempts
          /\ (patch.pc = "LoaderData" /\ patch'.pc # "LoaderData") =>
                patch'.pc = (IF patch'.LoaderData THEN "modules" ELSE "CleanUp")]_vars
    /\ (patch.pc = "wait") ~> (patch.pc # "wait")

C19_BoundedWait_Reached ==
    /\ PatchDone
    /\ Count("delay") = LdrAttempts
    /\ ~patch.LoaderData
    /\ patch.status = STATUS_UNSUCCESSFUL

\* ------------------------------------------------------------------------
\* Properties of two concurrent HideProcess calls
\* ------------------------------------------------------------------------

BothDone == \A t \in Hider : hide[t].pc = "done"

\* The objects the two calls ask to unlink.
Targets == {n \in Node : \E t \in Hider : UniqueProcessId(n) = hide[t].pid}

\* Both calls are made from processes that neither call unlinks.
CallersStay == \A t \in Hider : hide[t].current \notin Targets

\* The list is well formed, holds the objects other than the two targets,
\* and each target points to itself.
TwoUnlinked ==
    /\ \A n \in Node \ Targets :
          /\ Blink[Flink[n]] = n
          /\ Flink[Blink[n]] = n
          /\ Range(RingOf(Flink, n)) = Node \ Targets
    /\ \A k \in Targets : Flink[k] = k /\ Blink[k] = k

\* C20 as stated: two HideProcess calls for two different pids of one
\* well-formed circular list, on concurrent threads, their reads and writes of
\* the links interleaved in any way, leave a well-formed circular list of
\* exactly the other objects, each target pointing to itself (stated for
\* calls made from processes that stay on the list).
C20_ConcurrentHide_AsStated ==
    (BothDone /\ CallersStay) => TwoUnlinked

\* C20 amended: the same of two calls that run one after the other; each
\* call ends unless the other one starts while it runs.
C20_ConcurrentHide ==
    /\ []((BothDone /\ CallersStay /\ ~overlap) => TwoUnlinked)
    /\ \A t \in Hider :
          (hide[t].pc \notin {"idle", "done"}) ~> (hide[t].pc = "done" \/ overlap)

C20_ConcurrentHide_Reached ==
    /\ BothDone
    /\ CallersStay
    /\ ~overlap
    /\ Cardinality(Targets) = 2
    /\ TwoUnlinked

====
